---- MODULE Spec2Model ----
(***************************************************************************)
(* Case-insensitive collections over UniCase<String> keys:                 *)
(* UniCaseIndexMap, UniCaseIndexSet (insertion ordered, backed by          *)
(* indexmap) and UniCaseBTreeSet (ordered, backed by std BTreeSet).        *)
(*                                                                         *)
(* A text is a sequence of code points.  The texts used are                *)
(*   <<>> ""    <<65>> "A"    <<97>> "a"    <<66>> "B"    <<197>> "Å"      *)
(* A stored key is the text handed to UniCase::new / Into<Key>: the key    *)
(* keeps the original text and compares by its case-folded form.           *)
(***************************************************************************)
EXTENDS Integers, Sequences, FiniteSets, TLC

VARIABLES adapter, inner, other, phase

vars == <<adapter, inner, other, phase>>

\* adapter: the type the program instantiated.  inner: its field of that
\* name, as the sequence of entries in iteration order.  other: a second
\* adapter of the same type, the right operand of ==.  phase: "new" right
\* after construction, "live" once a &mut self method was called,
\* "panicked" once a call panicked.  Methods that take &self return a
\* function of inner and change nothing.

\* The operands of a binary operation (==) besides self.
operands == <<other>>

Texts == {<<>>, <<65>>, <<97>>, <<66>>, <<197>>}

Values == {1, 2}

\* Longest sequence handed to extend / from_iter, and the texts in it.
MaxExt == 2

ExtTexts == {<<65>>, <<97>>, <<66>>}

\* Most entries of either operand when two adapters are compared.
MaxEq == 2

Adapters == {"UniCaseIndexMap", "UniCaseIndexSet", "UniCaseBTreeSet"}

\* Option<T>
None == <<>>

Some(x) == <<x>>

----------------------------------------------------------------------------
\* UniCase<String>: equality, hashing and ordering go through case folding.

\* Case folding of one code point: ASCII A-Z and Latin-1 capitals fold to
\* the letter 32 above; every other code point folds to itself.
FoldChar(c) ==
    IF (c >= 65 /\ c <= 90) \/ (c >= 192 /\ c <= 222 /\ c # 215)
    THEN c + 32
    ELSE c

RECURSIVE Fold(_)
Fold(s) == IF s = <<>> THEN <<>> ELSE <<FoldChar(Head(s))>> \o Fold(Tail(s))

\* PartialEq / Hash of UniCase: equal iff the folded texts are equal.
UniEq(a, b) == Fold(a) = Fold(b)

RECURSIVE SeqLess(_, _)
SeqLess(a, b) ==
    IF b = <<>> THEN FALSE
    ELSE IF a = <<>> THEN TRUE
    ELSE IF Head(a) < Head(b) THEN TRUE
    ELSE IF Head(a) > Head(b) THEN FALSE
    ELSE SeqLess(Tail(a), Tail(b))

\* Faulty variant of UniLess: order by the original text.
UniLessRaw(a, b) == SeqLess(a, b)

\* Ord of UniCase: lexicographic order of the folded texts.
UniLess(a, b) == SeqLess(Fold(a), Fold(b))

\* cmp(a, b) == Ordering::Equal
OrdEq(a, b) == ~UniLess(a, b) /\ ~UniLess(b, a)

----------------------------------------------------------------------------
\* indexmap: entries live in a vector in insertion order, found by hash + eq.

\* Faulty variant of IndexOf: lookup by the original text.
IndexOfExact(keys, k) ==
    IF \E i \in 1..Len(keys) : keys[i] = k
    THEN CHOOSE i \in 1..Len(keys) : keys[i] = k /\ \A j \in 1..(i - 1) : keys[j] # k
    ELSE 0

\* Faulty variant of IndexOf: the empty text never matches a stored key.
IndexOfNonEmpty(keys, k) ==
    IF k # <<>> /\ \E i \in 1..Len(keys) : UniEq(keys[i], k)
    THEN CHOOSE i \in 1..Len(keys) :
            /\ UniEq(keys[i], k)
            /\ \A j \in 1..(i - 1) : ~UniEq(keys[j], k)
    ELSE 0

\* Position of the entry whose key equals k, 0 when there is none.
IndexOf(keys, k) ==
    IF \E i \in 1..Len(keys) : UniEq(keys[i], k)
    THEN CHOOSE i \in 1..Len(keys) :
            UniEq(keys[i], k) /\ \A j \in 1..(i - 1) : ~UniEq(keys[j], k)
    ELSE 0

\* Faulty variant of SwapRemove: the last entry is dropped whatever i is.
SwapRemovePop(s, i) == SubSeq(s, 1, Len(s) - 1)

\* IndexMap::remove / IndexSet::remove are swap_remove: the last entry
\* takes the place of the removed one.
SwapRemove(s, i) ==
    IF i = Len(s)
    THEN SubSeq(s, 1, Len(s) - 1)
    ELSE SubSeq(s, 1, i - 1) \o <<s[Len(s)]>> \o SubSeq(s, i + 1, Len(s) - 1)

RECURSIVE MapKeys(_)
MapKeys(m) == IF m = <<>> THEN <<>> ELSE <<Head(m).key>> \o MapKeys(Tail(m))

----------------------------------------------------------------------------
\* UniCaseIndexMap<V>: inner is a sequence of [key, value] in iteration order.

IndexMapGet(m, k) ==
    LET i == IndexOf(MapKeys(m), k)
    IN  IF i = 0 THEN None ELSE Some(m[i].value)

IndexMapGetKeyValue(m, k) ==
    LET i == IndexOf(MapKeys(m), k)
    IN  IF i = 0 THEN None ELSE Some(<<m[i].key, m[i].value>>)

IndexMapContainsKey(m, k) == IndexOf(MapKeys(m), k) # 0

\* Faulty variant of IndexMapInsert: an update also replaces the stored key.
IndexMapInsertReplaceKey(m, k, v) ==
    LET i == IndexOf(MapKeys(m), k)
    IN  IF i = 0
        THEN [inner |-> Append(m, [key |-> k, value |-> v]), ret |-> None]
        ELSE [inner |-> [m EXCEPT ![i] = [key |-> k, value |-> v]],
              ret |-> Some(m[i].value)]

\* Faulty variant of IndexMapInsert: always appends.
IndexMapInsertAppend(m, k, v) ==
    [inner |-> Append(m, [key |-> k, value |-> v]), ret |-> None]

\* IndexMap::insert: a new key is appended; an equal key keeps its place and
\* its stored key, takes the new value and hands back the old one.
IndexMapInsert(m, k, v) ==
    LET i == IndexOf(MapKeys(m), k)
    IN  IF i = 0
        THEN [inner |-> Append(m, [key |-> k, value |-> v]), ret |-> None]
        ELSE [inner |-> [m EXCEPT ![i].value = v], ret |-> Some(m[i].value)]

IndexMapRemoveEntry(m, k) ==
    LET i == IndexOf(MapKeys(m), k)
    IN  IF i = 0
        THEN [inner |-> m, ret |-> None]
        ELSE [inner |-> SwapRemove(m, i), ret |-> Some(<<m[i].key, m[i].value>>)]

IndexMapRemove(m, k) ==
    LET i == IndexOf(MapKeys(m), k)
    IN  IF i = 0
        THEN [inner |-> m, ret |-> None]
        ELSE [inner |-> SwapRemove(m, i), ret |-> Some(m[i].value)]

\* A retain predicate of the map is an FnMut(&Key, &mut V) -> bool: it keeps
\* (k, v) iff k is in f.keys and v is in f.values, and, handed the value by
\* &mut, it may write to it: f.write is None or Some(the value written).
RetainPreds ==
    [keys : SUBSET Texts, values : SUBSET Values,
     write : {None} \cup {Some(v) : v \in Values}]

\* What the predicate leaves in the value it was handed.
RetainWritten(f, v) == IF f.write = None THEN v ELSE f.write[1]

\* Faulty variant of IndexMapRetain: every entry the predicate rejects is
\* taken out with swap_remove.
RECURSIVE IndexMapRetainSwap(_, _)
IndexMapRetainSwap(m, f) ==
    IF \E i \in 1..Len(m) : ~(m[i].key \in f.keys /\ m[i].value \in f.values)
    THEN IndexMapRetainSwap(
            SwapRemove(m, CHOOSE i \in 1..Len(m) :
                             /\ ~(m[i].key \in f.keys /\ m[i].value \in f.values)
                             /\ \A j \in 1..(i - 1) :
                                    m[j].key \in f.keys /\ m[j].value \in f.values),
            f)
    ELSE [i \in 1..Len(m) |->
            [key |-> m[i].key, value |-> RetainWritten(f, m[i].value)]]

\* IndexMap::retain: the entries are visited in order, the ones the
\* predicate rejects are dropped and the others close up in order.
IndexMapRetain(m, f) ==
    LET kept == SelectSeq(m, LAMBDA e : e.key \in f.keys /\ e.value \in f.values)
    IN  [i \in 1..Len(kept) |->
            [key |-> kept[i].key, value |-> RetainWritten(f, kept[i].value)]]

\* Faulty variant of IndexMapExtend: a key already seen keeps its first value.
RECURSIVE IndexMapExtendKeepFirst(_, _)
IndexMapExtendKeepFirst(m, pairs) ==
    IF pairs = <<>> THEN m
    ELSE IndexMapExtendKeepFirst(
            IF IndexMapContainsKey(m, Head(pairs)[1])
            THEN m
            ELSE IndexMapInsert(m, Head(pairs)[1], Head(pairs)[2]).inner,
            Tail(pairs))

\* IndexMap::extend inserts the pairs one after the other.
RECURSIVE IndexMapExtend(_, _)
IndexMapExtend(m, pairs) ==
    IF pairs = <<>> THEN m
    ELSE IndexMapExtend(IndexMapInsert(m, Head(pairs)[1], Head(pairs)[2]).inner,
                        Tail(pairs))

IndexMapFromIter(pairs) == IndexMapExtend(<<>>, pairs)

\* Faulty variant of IndexMapIndex: a missing key yields a default value.
IndexMapIndexDefault(m, k) ==
    LET i == IndexOf(MapKeys(m), k)
    IN  IF i = 0 THEN [panic |-> FALSE, value |-> 0]
        ELSE [panic |-> FALSE, value |-> m[i].value]

\* Index::index: the value, or a panic when the key is missing.
IndexMapIndex(m, k) ==
    LET i == IndexOf(MapKeys(m), k)
    IN  IF i = 0 THEN [panic |-> TRUE] ELSE [panic |-> FALSE, value |-> m[i].value]

RECURSIVE IndexMapIter(_)
IndexMapIter(m) ==
    IF m = <<>> THEN <<>> ELSE <<<<Head(m).key, Head(m).value>>>> \o IndexMapIter(Tail(m))

\* Sequences of at most MaxExt elements of S.
SeqsUpTo(S) == UNION {[1..n -> S] : n \in 0..MaxExt}

\* The program holds a UniCaseIndexMap and has not panicked.
IsMap == adapter = "UniCaseIndexMap" /\ phase # "panicked"

\* Faulty variant of IndexMapEq: entries are compared position by position.
IndexMapEqPositional(a, b) ==
    /\ Len(a) = Len(b)
    /\ \A i \in 1..Len(a) : UniEq(a[i].key, b[i].key) /\ a[i].value = b[i].value

\* PartialEq: equal lengths, and every entry of self is found in other
\* with an equal value.
IndexMapEq(a, b) ==
    IF Len(a) # Len(b) THEN FALSE
    ELSE \A i \in 1..Len(a) :
            LET g == IndexMapGet(b, a[i].key)
            IN  IF g = None THEN FALSE ELSE a[i].value = g[1]

UniCaseIndexMap_eq ==
    /\ IsMap
    /\ UNCHANGED vars

\* clear(): no entry is left.
IndexMapClear(c) == <<>>

UniCaseIndexMap_clear ==
    /\ IsMap
    /\ inner' = IndexMapClear(inner)
    /\ phase' = "live"
    /\ UNCHANGED <<adapter, operands>>

UniCaseIndexMap_contains_key(k) ==
    /\ IsMap
    /\ UNCHANGED vars

\* get_mut(k): Some(&mut value) of the entry whose key equals k, or None.
IndexMapGetMut(m, k) ==
    LET i == IndexOf(MapKeys(m), k)
    IN  IF i = 0 THEN None ELSE Some(m[i].value)

\* Faulty variant of IndexMapGetMutWrite: the entry written to moves to the
\* end.
IndexMapGetMutTouch(m, k, v) ==
    LET i == IndexOf(MapKeys(m), k)
    IN  IF i = 0 THEN m
        ELSE SubSeq(m, 1, i - 1) \o SubSeq(m, i + 1, Len(m))
                \o <<[key |-> m[i].key, value |-> v]>>

\* The map after the caller wrote v through the reference get_mut(k) gave.
IndexMapGetMutWrite(m, k, v) ==
    LET i == IndexOf(MapKeys(m), k)
    IN  IF i = 0 THEN m ELSE [m EXCEPT ![i].value = v]

\* What a caller does to the values it reaches through iter_mut or
\* values_mut: each value v becomes w[v].
ValueWrites == [Values -> Values]

\* iter_mut hands out (&Key, &mut V) in iteration order.
IndexMapIterMut(m, w) ==
    [i \in 1..Len(m) |-> [key |-> m[i].key, value |-> w[m[i].value]]]

\* values_mut hands out &mut V in iteration order.
IndexMapValuesMut(m, w) ==
    [i \in 1..Len(m) |-> [key |-> m[i].key, value |-> w[m[i].value]]]

\* values(): the values in iteration order.
IndexMapValues(m) == [i \in 1..Len(m) |-> m[i].value]

IndexMapLen(m) == Len(m)

IndexMapIsEmpty(m) == Len(m) = 0

UniCaseIndexMap_get_mut(k, v) ==
    /\ IsMap
    /\ inner' = IndexMapGetMutWrite(inner, k, v)
    /\ phase' = "live"
    /\ UNCHANGED <<adapter, operands>>

UniCaseIndexMap_iter_mut(w) ==
    /\ IsMap
    /\ inner' = IndexMapIterMut(inner, w)
    /\ phase' = "live"
    /\ UNCHANGED <<adapter, operands>>

UniCaseIndexMap_values_mut(w) ==
    /\ IsMap
    /\ inner' = IndexMapValuesMut(inner, w)
    /\ phase' = "live"
    /\ UNCHANGED <<adapter, operands>>

UniCaseIndexMap_keys ==
    /\ IsMap
    /\ UNCHANGED vars

UniCaseIndexMap_values ==
    /\ IsMap
    /\ UNCHANGED vars

UniCaseIndexMap_is_empty ==
    /\ IsMap
    /\ UNCHANGED vars

\* Faulty variant of IndexMapEntry: the handle is Occupied only when the
\* very text is stored.
IndexMapEntryExact(m, k) ==
    IF \E i \in 1..Len(m) : m[i].key = k THEN "Occupied" ELSE "Vacant"

\* entry(k): the handle is Occupied when the key is there, Vacant when not.
IndexMapEntry(m, k) ==
    IF IndexOf(MapKeys(m), k) = 0 THEN "Vacant" ELSE "Occupied"

\* entry(k).or_insert(v): a vacant entry appends (k, v), an occupied one is
\* left alone; either way the value now stored is handed back.
IndexMapEntryOrInsert(m, k, v) ==
    LET i == IndexOf(MapKeys(m), k)
    IN  IF i = 0
        THEN [inner |-> Append(m, [key |-> k, value |-> v]), ret |-> v]
        ELSE [inner |-> m, ret |-> m[i].value]

\* The keys Entry::key() may hand back: a Vacant handle holds the key passed
\* in; an Occupied handle hands back the key passed in or the stored key,
\* depending on the version of the library.
IndexMapEntryKeys(m, k) ==
    LET i == IndexOf(MapKeys(m), k)
    IN  IF i = 0 THEN {k} ELSE {k, m[i].key}

\* VacantEntry::insert(v): (k, v) is appended.
IndexMapVacantInsert(m, k, v) == Append(m, [key |-> k, value |-> v])

\* OccupiedEntry::insert(v) (and a write through get_mut / into_mut /
\* and_modify): the value is replaced in place, the old value handed back.
IndexMapOccupiedInsert(m, k, v) ==
    LET i == IndexOf(MapKeys(m), k)
    IN  [inner |-> [m EXCEPT ![i].value = v], ret |-> m[i].value]

UniCaseIndexMap_entry(k) ==
    /\ IsMap
    /\ UNCHANGED vars

UniCaseIndexMap_entry_or_insert(k, v) ==
    /\ IsMap
    /\ inner' = IndexMapEntryOrInsert(inner, k, v).inner
    /\ phase' = "live"
    /\ UNCHANGED <<adapter, operands>>

\* match map.entry(k) { Vacant(e) => e.insert(v), Occupied(e) => e.insert(v) }
UniCaseIndexMap_entry_insert(k, v) ==
    /\ IsMap
    /\ inner' = IF IndexMapEntry(inner, k) = "Vacant"
                THEN IndexMapVacantInsert(inner, k, v)
                ELSE IndexMapOccupiedInsert(inner, k, v).inner
    /\ phase' = "live"
    /\ UNCHANGED <<adapter, operands>>

UniCaseIndexMap_get(k) ==
    /\ IsMap
    /\ UNCHANGED vars

UniCaseIndexMap_get_key_value(k) ==
    /\ IsMap
    /\ UNCHANGED vars

\* map[k]: a read when the key is there, a panic when it is not.
UniCaseIndexMap_index(k) ==
    /\ IsMap
    /\ phase' = IF IndexMapIndex(inner, k).panic THEN "panicked" ELSE phase
    /\ UNCHANGED <<adapter, inner, operands>>

UniCaseIndexMap_insert(k, v) ==
    /\ IsMap
    /\ inner' = IndexMapInsert(inner, k, v).inner
    /\ phase' = "live"
    /\ UNCHANGED <<adapter, operands>>

UniCaseIndexMap_iter ==
    /\ IsMap
    /\ UNCHANGED vars

UniCaseIndexMap_len ==
    /\ IsMap
    /\ UNCHANGED vars

UniCaseIndexMap_remove(k) ==
    /\ IsMap
    /\ inner' = IndexMapRemove(inner, k).inner
    /\ phase' = "live"
    /\ UNCHANGED <<adapter, operands>>

UniCaseIndexMap_remove_entry(k) ==
    /\ IsMap
    /\ inner' = IndexMapRemoveEntry(inner, k).inner
    /\ phase' = "live"
    /\ UNCHANGED <<adapter, operands>>

UniCaseIndexMap_retain(f) ==
    /\ IsMap
    /\ inner' = IndexMapRetain(inner, f)
    /\ phase' = "live"
    /\ UNCHANGED <<adapter, operands>>

UniCaseIndexMap_extend(pairs) ==
    /\ IsMap
    /\ inner' = IndexMapExtend(inner, pairs)
    /\ phase' = "live"
    /\ UNCHANGED <<adapter, operands>>

UniCaseIndexMap_from_iter(pairs) ==
    /\ IsMap
    /\ phase = "new"
    /\ inner' = IndexMapFromIter(pairs)
    /\ phase' = "live"
    /\ UNCHANGED <<adapter, operands>>

----------------------------------------------------------------------------
\* UniCaseIndexSet: inner is a sequence of keys in iteration order.

IndexSetContains(s, k) == IndexOf(s, k) # 0

IndexSetGet(s, k) ==
    LET i == IndexOf(s, k)
    IN  IF i = 0 THEN None ELSE Some(s[i])

\* Faulty variant of IndexSetInsert: an equal key is replaced by the new text.
IndexSetInsertReplace(s, k) ==
    LET i == IndexOf(s, k)
    IN  IF i = 0
        THEN [inner |-> Append(s, k), ret |-> TRUE]
        ELSE [inner |-> [s EXCEPT ![i] = k], ret |-> FALSE]

\* Faulty variant of IndexSetInsert: a new key goes in front.
IndexSetInsertFront(s, k) ==
    IF IndexOf(s, k) = 0
    THEN [inner |-> <<k>> \o s, ret |-> TRUE]
    ELSE [inner |-> s, ret |-> FALSE]

\* IndexSet::insert: a new key is appended, an equal key changes nothing.
IndexSetInsert(s, k) ==
    IF IndexOf(s, k) = 0
    THEN [inner |-> Append(s, k), ret |-> TRUE]
    ELSE [inner |-> s, ret |-> FALSE]

IndexSetRemove(s, k) ==
    LET i == IndexOf(s, k)
    IN  IF i = 0
        THEN [inner |-> s, ret |-> FALSE]
        ELSE [inner |-> SwapRemove(s, i), ret |-> TRUE]

\* A set's retain predicate keeps k iff k is in keep.
IndexSetRetain(s, keep) == SelectSeq(s, LAMBDA k : k \in keep)

RECURSIVE IndexSetExtend(_, _)
IndexSetExtend(s, keys) ==
    IF keys = <<>> THEN s
    ELSE IndexSetExtend(IndexSetInsert(s, Head(keys)).inner, Tail(keys))

IndexSetFromIter(keys) == IndexSetExtend(<<>>, keys)

IsIndexSet == adapter = "UniCaseIndexSet"

\* Faulty variant of IndexSetEq: the lengths are not compared.
IndexSetEqSubset(a, b) == \A i \in 1..Len(a) : IndexSetContains(b, a[i])

\* PartialEq: equal lengths, and every key of self is contained in other.
IndexSetEq(a, b) ==
    IF Len(a) # Len(b) THEN FALSE
    ELSE \A i \in 1..Len(a) : IndexSetContains(b, a[i])

UniCaseIndexSet_eq ==
    /\ IsIndexSet
    /\ UNCHANGED vars

\* Faulty variant of IndexSetClear: the first key survives.
IndexSetClearTail(s) == IF s = <<>> THEN <<>> ELSE <<Head(s)>>

\* clear(): no entry is left.
IndexSetClear(c) == <<>>

UniCaseIndexSet_clear ==
    /\ IsIndexSet
    /\ inner' = IndexSetClear(inner)
    /\ phase' = "live"
    /\ UNCHANGED <<adapter, operands>>

UniCaseIndexSet_contains(k) ==
    /\ IsIndexSet
    /\ UNCHANGED vars

UniCaseIndexSet_get(k) ==
    /\ IsIndexSet
    /\ UNCHANGED vars

UniCaseIndexSet_insert(k) ==
    /\ IsIndexSet
    /\ inner' = IndexSetInsert(inner, k).inner
    /\ phase' = "live"
    /\ UNCHANGED <<adapter, operands>>

UniCaseIndexSet_iter ==
    /\ IsIndexSet
    /\ UNCHANGED vars

UniCaseIndexSet_len ==
    /\ IsIndexSet
    /\ UNCHANGED vars

IndexSetLen(s) == Len(s)

IndexSetIsEmpty(s) == Len(s) = 0

UniCaseIndexSet_is_empty ==
    /\ IsIndexSet
    /\ UNCHANGED vars

UniCaseIndexSet_remove(k) ==
    /\ IsIndexSet
    /\ inner' = IndexSetRemove(inner, k).inner
    /\ phase' = "live"
    /\ UNCHANGED <<adapter, operands>>

UniCaseIndexSet_retain(keep) ==
    /\ IsIndexSet
    /\ inner' = IndexSetRetain(inner, keep)
    /\ phase' = "live"
    /\ UNCHANGED <<adapter, operands>>

UniCaseIndexSet_extend(keys) ==
    /\ IsIndexSet
    /\ inner' = IndexSetExtend(inner, keys)
    /\ phase' = "live"
    /\ UNCHANGED <<adapter, operands>>

UniCaseIndexSet_from_iter(keys) ==
    /\ IsIndexSet
    /\ phase = "new"
    /\ inner' = IndexSetFromIter(keys)
    /\ phase' = "live"
    /\ UNCHANGED <<adapter, operands>>

----------------------------------------------------------------------------
\* UniCaseBTreeSet: inner is the sequence of keys in the tree's order.

\* Position of the key that compares Equal to k, 0 when there is none.
BTreeFind(s, k) ==
    IF \E i \in 1..Len(s) : OrdEq(s[i], k)
    THEN CHOOSE i \in 1..Len(s) : OrdEq(s[i], k)
    ELSE 0

BTreeSetContains(s, k) == BTreeFind(s, k) # 0

BTreeSetGet(s, k) ==
    LET i == BTreeFind(s, k)
    IN  IF i = 0 THEN None ELSE Some(s[i])

\* BTreeSet::insert: a new key goes after the keys less than it, an equal
\* key changes nothing.
BTreeSetInsert(s, k) ==
    LET n == Cardinality({j \in 1..Len(s) : UniLess(s[j], k)})
    IN  IF BTreeFind(s, k) = 0
        THEN [inner |-> SubSeq(s, 1, n) \o <<k>> \o SubSeq(s, n + 1, Len(s)),
              ret |-> TRUE]
        ELSE [inner |-> s, ret |-> FALSE]

BTreeSetRemove(s, k) ==
    LET i == BTreeFind(s, k)
    IN  IF i = 0
        THEN [inner |-> s, ret |-> FALSE]
        ELSE [inner |-> SubSeq(s, 1, i - 1) \o SubSeq(s, i + 1, Len(s)),
              ret |-> TRUE]

BTreeSetRetain(s, keep) == SelectSeq(s, LAMBDA k : k \in keep)

RECURSIVE BTreeSetExtend(_, _)
BTreeSetExtend(s, keys) ==
    IF keys = <<>> THEN s
    ELSE BTreeSetExtend(BTreeSetInsert(s, Head(keys)).inner, Tail(keys))

BTreeSetFromIter(keys) == BTreeSetExtend(<<>>, keys)

IsBTreeSet == adapter = "UniCaseBTreeSet"

\* PartialEq: equal lengths, and every key of self is contained in other.
BTreeSetEq(a, b) ==
    IF Len(a) # Len(b) THEN FALSE
    ELSE \A i \in 1..Len(a) : BTreeSetContains(b, a[i])

UniCaseBTreeSet_eq ==
    /\ IsBTreeSet
    /\ UNCHANGED vars

\* clear(): no entry is left.
BTreeSetClear(c) == <<>>

UniCaseBTreeSet_clear ==
    /\ IsBTreeSet
    /\ inner' = BTreeSetClear(inner)
    /\ phase' = "live"
    /\ UNCHANGED <<adapter, operands>>

UniCaseBTreeSet_contains(k) ==
    /\ IsBTreeSet
    /\ UNCHANGED vars

UniCaseBTreeSet_get(k) ==
    /\ IsBTreeSet
    /\ UNCHANGED vars

UniCaseBTreeSet_insert(k) ==
    /\ IsBTreeSet
    /\ inner' = BTreeSetInsert(inner, k).inner
    /\ phase' = "live"
    /\ UNCHANGED <<adapter, operands>>

UniCaseBTreeSet_iter ==
    /\ IsBTreeSet
    /\ UNCHANGED vars

UniCaseBTreeSet_len ==
    /\ IsBTreeSet
    /\ UNCHANGED vars

BTreeSetLen(s) == Len(s)

BTreeSetIsEmpty(s) == Len(s) = 0

UniCaseBTreeSet_is_empty ==
    /\ IsBTreeSet
    /\ UNCHANGED vars

UniCaseBTreeSet_remove(k) ==
    /\ IsBTreeSet
    /\ inner' = BTreeSetRemove(inner, k).inner
    /\ phase' = "live"
    /\ UNCHANGED <<adapter, operands>>

UniCaseBTreeSet_retain(keep) ==
    /\ IsBTreeSet
    /\ inner' = BTreeSetRetain(inner, keep)
    /\ phase' = "live"
    /\ UNCHANGED <<adapter, operands>>

UniCaseBTreeSet_extend(keys) ==
    /\ IsBTreeSet
    /\ inner' = BTreeSetExtend(inner, keys)
    /\ phase' = "live"
    /\ UNCHANGED <<adapter, operands>>

UniCaseBTreeSet_from_iter(keys) ==
    /\ IsBTreeSet
    /\ phase = "new"
    /\ inner' = BTreeSetFromIter(keys)
    /\ phase' = "live"
    /\ UNCHANGED <<adapter, operands>>

----------------------------------------------------------------------------
\* The program: one adapter, created empty, then any sequence of calls.

Init ==
    /\ adapter \in Adapters
    /\ inner = <<>>
    /\ other = <<>>
    /\ phase = "new"

Next ==
    \/ UniCaseIndexMap_clear
    \/ \E k \in Texts : UniCaseIndexMap_contains_key(k)
    \/ \E k \in Texts : UniCaseIndexMap_entry(k)
    \/ \E k \in Texts, v \in Values : UniCaseIndexMap_entry_or_insert(k, v)
    \/ \E k \in Texts, v \in Values : UniCaseIndexMap_entry_insert(k, v)
    \/ \E k \in Texts : UniCaseIndexMap_get(k)
    \/ \E k \in Texts : UniCaseIndexMap_get_key_value(k)
    \/ \E k \in Texts, v \in Values : UniCaseIndexMap_get_mut(k, v)
    \/ \E w \in ValueWrites : UniCaseIndexMap_iter_mut(w)
    \/ \E w \in ValueWrites : UniCaseIndexMap_values_mut(w)
    \/ UniCaseIndexMap_keys
    \/ UniCaseIndexMap_values
    \/ UniCaseIndexMap_is_empty
    \/ \E k \in Texts : UniCaseIndexMap_index(k)
    \/ \E k \in Texts, v \in Values : UniCaseIndexMap_insert(k, v)
    \/ UniCaseIndexMap_eq
    \/ UniCaseIndexMap_iter
    \/ UniCaseIndexMap_len
    \/ \E k \in Texts : UniCaseIndexMap_remove(k)
    \/ \E k \in Texts : UniCaseIndexMap_remove_entry(k)
    \/ \E f \in RetainPreds : UniCaseIndexMap_retain(f)
    \/ \E pairs \in SeqsUpTo(ExtTexts \X Values) : UniCaseIndexMap_extend(pairs)
    \/ \E pairs \in SeqsUpTo(ExtTexts \X Values) : UniCaseIndexMap_from_iter(pairs)
    \/ UniCaseIndexSet_clear
    \/ \E k \in Texts : UniCaseIndexSet_contains(k)
    \/ \E k \in Texts : UniCaseIndexSet_get(k)
    \/ \E k \in Texts : UniCaseIndexSet_insert(k)
    \/ UniCaseIndexSet_eq
    \/ UniCaseIndexSet_iter
    \/ UniCaseIndexSet_len
    \/ UniCaseIndexSet_is_empty
    \/ \E k \in Texts : UniCaseIndexSet_remove(k)
    \/ \E keep \in SUBSET Texts : UniCaseIndexSet_retain(keep)
    \/ \E keys \in SeqsUpTo(ExtTexts) : UniCaseIndexSet_extend(keys)
    \/ \E keys \in SeqsUpTo(ExtTexts) : UniCaseIndexSet_from_iter(keys)
    \/ UniCaseBTreeSet_clear
    \/ \E k \in Texts : UniCaseBTreeSet_contains(k)
    \/ \E k \in Texts : UniCaseBTreeSet_get(k)
    \/ \E k \in Texts : UniCaseBTreeSet_insert(k)
    \/ UniCaseBTreeSet_eq
    \/ UniCaseBTreeSet_iter
    \/ UniCaseBTreeSet_len
    \/ UniCaseBTreeSet_is_empty
    \/ \E k \in Texts : UniCaseBTreeSet_remove(k)
    \/ \E keep \in SUBSET Texts : UniCaseBTreeSet_retain(keep)
    \/ \E keys \in SeqsUpTo(ExtTexts) : UniCaseBTreeSet_extend(keys)
    \/ \E keys \in SeqsUpTo(ExtTexts) : UniCaseBTreeSet_from_iter(keys)


Spec == Init /\ [][Next]_vars

----------------------------------------------------------------------------
\* Two adapters of one type, each filled by insert, then compared with ==.

Self_insert(k, v) ==
    /\ Len(inner) < MaxEq
    /\ \/ UniCaseIndexMap_insert(k, v)
       \/ UniCaseIndexSet_insert(k)
       \/ UniCaseBTreeSet_insert(k)

Other_insert(k, v) ==
    /\ Len(other) < MaxEq
    /\ other' = IF adapter = "UniCaseIndexMap" THEN IndexMapInsert(other, k, v).inner
                ELSE IF adapter = "UniCaseIndexSet" THEN IndexSetInsert(other, k).inner
                ELSE BTreeSetInsert(other, k).inner
    /\ UNCHANGED <<adapter, inner, phase>>

Compare ==
    \/ UniCaseIndexMap_eq
    \/ UniCaseIndexSet_eq
    \/ UniCaseBTreeSet_eq

NextEq ==
    \/ \E k \in Texts, v \in Values : Self_insert(k, v)
    \/ \E k \in Texts, v \in Values : Other_insert(k, v)
    \/ Compare

SpecEq == Init /\ [][NextEq]_vars

----------------------------------------------------------------------------
\* An insertion-ordered adapter filled and emptied key by key, read, and
\* written to through the references the map hands out.

Frame_build ==
    \/ \E k \in Texts, v \in Values : UniCaseIndexMap_insert(k, v)
    \/ \E k \in Texts : UniCaseIndexMap_remove(k)
    \/ \E k \in Texts : UniCaseIndexSet_insert(k)
    \/ \E k \in Texts : UniCaseIndexSet_remove(k)

Frame_lookup ==
    \/ \E k \in Texts : UniCaseIndexMap_get(k)
    \/ \E k \in Texts : UniCaseIndexMap_get_key_value(k)
    \/ \E k \in Texts : UniCaseIndexMap_contains_key(k)
    \/ UniCaseIndexMap_iter
    \/ UniCaseIndexMap_keys
    \/ UniCaseIndexMap_values
    \/ UniCaseIndexMap_len
    \/ UniCaseIndexMap_is_empty
    \/ \E k \in Texts : UniCaseIndexSet_get(k)
    \/ \E k \in Texts : UniCaseIndexSet_contains(k)
    \/ UniCaseIndexSet_iter
    \/ UniCaseIndexSet_len
    \/ UniCaseIndexSet_is_empty

Frame_write ==
    \/ \E k \in Texts, v \in Values : UniCaseIndexMap_get_mut(k, v)
    \/ \E w \in ValueWrites : UniCaseIndexMap_iter_mut(w)
    \/ \E w \in ValueWrites : UniCaseIndexMap_values_mut(w)

NextFrame ==
    \/ Frame_build
    \/ Frame_lookup
    \/ Frame_write

SpecFrame == Init /\ [][NextFrame]_vars

----------------------------------------------------------------------------
\* Key conversion.  A caller hands a key over in one of four
\* representations of a text; a Key is modelled by the original text it
\* wraps.

Reps == {"String", "&str", "UniCase<String>", "&UniCase<String>"}

\* A caller's argument: the representation and the text it holds.
Inputs == [rep : Reps, text : Texts]

\* The representations handed over by reference: the caller keeps them.
Borrowed == {"&str", "&UniCase<String>"}

\* Faulty variant of ToKey: a borrowed text is stored in its folded form.
ToKeyFolded(x) ==
    IF x.rep = "&str"
    THEN [key |-> Fold(x.text), caller |-> Some(x.text)]
    ELSE [key |-> x.text,
          caller |-> IF x.rep \in Borrowed THEN Some(x.text) ELSE None]

\* ToKey::to_key: key is the Key made, caller is what the caller holds
\* afterwards (None when the argument was moved into the key).
ToKey(x) ==
    CASE x.rep = "String" -> [key |-> x.text, caller |-> None]
      [] x.rep = "&str" -> [key |-> x.text, caller |-> Some(x.text)]
      [] x.rep = "UniCase<String>" -> [key |-> x.text, caller |-> None]
      [] x.rep = "&UniCase<String>" -> [key |-> x.text, caller |-> Some(x.text)]

\* Into<Key>, the bound of the insertion-ordered adapters' methods: From is
\* there for String, &str and the key itself, not for a reference to a key.
IntoKey(x) ==
    CASE x.rep = "String" -> [key |-> x.text, caller |-> None]
      [] x.rep = "&str" -> [key |-> x.text, caller |-> Some(x.text)]
      [] x.rep = "UniCase<String>" -> [key |-> x.text, caller |-> None]

\* The representations a method of the adapter compiles with.
Accepts(a, rep) == a = "UniCaseBTreeSet" \/ rep # "&UniCase<String>"

\* The conversion the adapter's methods apply to their key argument.
Convert(x) == IF adapter = "UniCaseBTreeSet" THEN ToKey(x) ELSE IntoKey(x)

Key_insert(x, v) ==
    /\ Accepts(adapter, x.rep)
    /\ \/ UniCaseIndexMap_insert(Convert(x).key, v)
       \/ UniCaseIndexSet_insert(Convert(x).key)
       \/ UniCaseBTreeSet_insert(Convert(x).key)

Key_remove(x) ==
    /\ Accepts(adapter, x.rep)
    /\ \/ UniCaseIndexMap_remove(Convert(x).key)
       \/ UniCaseIndexSet_remove(Convert(x).key)
       \/ UniCaseBTreeSet_remove(Convert(x).key)

Key_get(x) ==
    /\ Accepts(adapter, x.rep)
    /\ \/ UniCaseIndexMap_get(Convert(x).key)
       \/ UniCaseIndexSet_get(Convert(x).key)
       \/ UniCaseBTreeSet_get(Convert(x).key)

Key_contains(x) ==
    /\ Accepts(adapter, x.rep)
    /\ \/ UniCaseIndexMap_contains_key(Convert(x).key)
       \/ UniCaseIndexSet_contains(Convert(x).key)
       \/ UniCaseBTreeSet_contains(Convert(x).key)

NextKey ==
    \/ \E x \in Inputs, v \in Values : Key_insert(x, v)
    \/ \E x \in Inputs : Key_remove(x)
    \/ \E x \in Inputs : Key_get(x)
    \/ \E x \in Inputs : Key_contains(x)

SpecKey == Init /\ [][NextKey]_vars

----------------------------------------------------------------------------
\* Vocabulary of the properties.  The folded form of a text is Fold(text);
\* the properties speak of folded forms directly, never through the
\* adapters' own lookups.

IsMapKind == adapter = "UniCaseIndexMap"

\* The stored keys' original texts, in iteration order.
KeysOf(c) == IF IsMapKind THEN MapKeys(c) ELSE c

StoredKeys == KeysOf(inner)

HasFold(keys, t) == \E i \in 1..Len(keys) : Fold(keys[i]) = Fold(t)

FoldsOf(keys) == {Fold(keys[i]) : i \in 1..Len(keys)}

\* The total order over canonical keys.
FoldedLess(a, b) == SeqLess(Fold(a), Fold(b))

\* What insert(k [, v]) returns and leaves behind, whatever the adapter.
AdapterInsert(c, k, v) ==
    IF adapter = "UniCaseIndexMap" THEN IndexMapInsert(c, k, v)
    ELSE IF adapter = "UniCaseIndexSet" THEN IndexSetInsert(c, k)
    ELSE BTreeSetInsert(c, k)

\* What remove(k) returns and leaves behind, whatever the adapter.
AdapterRemove(c, k) ==
    IF adapter = "UniCaseIndexMap" THEN IndexMapRemove(c, k)
    ELSE IF adapter = "UniCaseIndexSet" THEN IndexSetRemove(c, k)
    ELSE BTreeSetRemove(c, k)

\* The stored key a lookup with k hands back (get on the sets,
\* get_key_value on the map), None when the lookup finds nothing.
AdapterGetKey(c, k) ==
    IF adapter = "UniCaseIndexMap"
    THEN (IF IndexMapGetKeyValue(c, k) = None THEN None
          ELSE Some(IndexMapGetKeyValue(c, k)[1][1]))
    ELSE IF adapter = "UniCaseIndexSet" THEN IndexSetGet(c, k)
    ELSE BTreeSetGet(c, k)

----------------------------------------------------------------------------
\* C1: in every adapter, when no stored key has T's folded form, after
\* insert(T) a lookup with any T' of the same folded form succeeds and hands
\* back the stored key with original text T (and, on the map, get hands back
\* the inserted value); a lookup with a text whose folded form no stored key
\* has returns absent.
C1_LookupIgnoresCase ==
    /\ \A T \in Texts, v \in Values :
          ~HasFold(StoredKeys, T) =>
              LET after == AdapterInsert(inner, T, v).inner
              IN  \A T2 \in Texts :
                     Fold(T2) = Fold(T) =>
                        /\ AdapterGetKey(after, T2) = Some(T)
                        /\ IsMapKind => /\ IndexMapGet(after, T2) = Some(v)
                                        /\ IndexMapGetKeyValue(after, T2) = Some(<<T, v>>)
    /\ \A T \in Texts :
          ~HasFold(StoredKeys, T) =>
              /\ AdapterGetKey(inner, T) = None
              /\ IsMapKind => IndexMapGet(inner, T) = None

\* The adapter is what insert("A") makes of the empty one; there the lookup
\* with "a" hands back "A" and the lookup with "Å" finds nothing.
C1_Witness ==
    /\ phase = "live"
    /\ inner = AdapterInsert(<<>>, <<65>>, 1).inner
    /\ AdapterGetKey(inner, <<97>>) = Some(<<65>>)
    /\ AdapterGetKey(inner, <<197>>) = None

\* insert(K2, v2) where a stored key K1 has the folded form of K2.
UpdateKeepsKey ==
    \A i \in 1..Len(inner), K2 \in Texts, v2 \in Values :
        Fold(K2) = Fold(inner[i].key) =>
            LET r == IndexMapInsert(inner, K2, v2)
            IN  /\ r.ret = Some(inner[i].value)
                /\ Len(r.inner) = Len(inner)
                /\ r.inner[i] = [key |-> inner[i].key, value |-> v2]
                /\ \A j \in 1..Len(inner) : j # i => r.inner[j] = inner[j]

\* insert(K1, v1) of a new key, then insert(K2, v2) with K2 of the same
\* folded form.
InsertTwice ==
    \A K1 \in Texts, K2 \in Texts, v1 \in Values, v2 \in Values :
        (~HasFold(StoredKeys, K1) /\ Fold(K1) = Fold(K2)) =>
            LET first == IndexMapInsert(inner, K1, v1)
                second == IndexMapInsert(first.inner, K2, v2)
            IN  /\ first.ret = None
                /\ second.ret = Some(v1)
                /\ Len(second.inner) = Len(first.inner)
                /\ IndexMapGetKeyValue(second.inner, K2) = Some(<<K1, v2>>)
                /\ IndexMapGetKeyValue(second.inner, K1) = Some(<<K1, v2>>)

\* C2: on UniCaseIndexMap, insert(K2, v2) on a map that stores K1 with the
\* folded form of K2 and value v1 keeps the stored text K1, sets the value to
\* v2, returns Some(v1) and leaves len() and every other entry as they were.
C2_FirstCasingWins == IsMapKind => (UpdateKeepsKey /\ InsertTwice)

\* The map is what insert("A", 1) then insert("a", 2) make of the empty one:
\* one entry, stored text "A", value 2.
C2_Witness ==
    /\ IsMapKind
    /\ phase = "live"
    /\ inner = IndexMapInsert(IndexMapInsert(<<>>, <<65>>, 1).inner, <<97>>, 2).inner
    /\ inner = <<[key |-> <<65>>, value |-> 2]>>
    /\ IndexMapInsert(IndexMapInsert(<<>>, <<65>>, 1).inner, <<97>>, 2).ret = Some(1)

\* Position in keys of the key with the folded form of t (0 when none).
FoldPos(keys, t) ==
    IF HasFold(keys, t)
    THEN CHOOSE i \in 1..Len(keys) : Fold(keys[i]) = Fold(t)
    ELSE 0

\* Across a step, the keys that stay keep their relative order and every
\* key that is new comes after all of them.
OrderKept(old, new) ==
    /\ \A i \in 1..Len(old), j \in 1..Len(old) :
          (i < j /\ HasFold(new, old[i]) /\ HasFold(new, old[j]))
              => FoldPos(new, old[i]) < FoldPos(new, old[j])
    /\ \A a \in 1..Len(new), b \in 1..Len(new) :
          (HasFold(old, new[a]) /\ ~HasFold(old, new[b])) => a < b

InsertionOrderKeptStep ==
    adapter \in {"UniCaseIndexMap", "UniCaseIndexSet"}
        => OrderKept(StoredKeys, StoredKeys')

\* C3: in UniCaseIndexMap and UniCaseIndexSet iteration order is the order of
\* first insertion of the keys now present: every call leaves the keys that
\* stay in their relative order and puts new keys last; in particular
\* remove(K) does not reorder the entries that remain.
C3_InsertionOrderKept ==
    [][InsertionOrderKeptStep]_vars

\* C4: in every adapter no two stored keys have the same folded form and
\* len() is the number of folded forms present; insert raises len() by one
\* exactly when the folded form is new, remove lowers it by one exactly when
\* the folded form is present.
C4_OneEntryPerFold ==
    /\ \A i \in 1..Len(StoredKeys), j \in 1..Len(StoredKeys) :
          i # j => Fold(StoredKeys[i]) # Fold(StoredKeys[j])
    /\ Len(inner) = Cardinality(FoldsOf(StoredKeys))
    /\ \A K \in Texts, v \in Values :
          /\ Len(AdapterInsert(inner, K, v).inner)
                = Len(inner) + (IF HasFold(StoredKeys, K) THEN 0 ELSE 1)
          /\ Len(AdapterRemove(inner, K).inner)
                = Len(inner) - (IF HasFold(StoredKeys, K) THEN 1 ELSE 0)

\* The adapter holds "A" and "B" after "a" was offered to it as well: two
\* entries for the three texts.
C4_Witness ==
    /\ phase = "live"
    /\ inner = AdapterInsert(AdapterInsert(AdapterInsert(<<>>, <<65>>, 1).inner,
                                           <<66>>, 1).inner, <<97>>, 1).inner
    /\ Len(inner) = 2

\* The not-found and found signals of remove.
RemoveFound(c, K, ret) ==
    IF IsMapKind
    THEN ret = Some(c[FoldPos(MapKeys(c), K)].value)
    ELSE ret = TRUE

RemoveNotFound(ret) == IF IsMapKind THEN ret = None ELSE ret = FALSE

\* C5: in every adapter remove(K) with no stored key of K's folded form
\* returns not found and leaves the adapter as it is; with such a key stored
\* it returns found (true / Some(its value)), and a second remove with any
\* text of that folded form then returns not found.
C5_RemoveIdempotent ==
    \A K \in Texts :
        LET r == AdapterRemove(inner, K)
        IN  IF HasFold(StoredKeys, K)
            THEN /\ RemoveFound(inner, K, r.ret)
                 /\ \A K2 \in Texts :
                       Fold(K2) = Fold(K) =>
                          /\ RemoveNotFound(AdapterRemove(r.inner, K2).ret)
                          /\ AdapterRemove(r.inner, K2).inner = r.inner
            ELSE /\ RemoveNotFound(r.ret)
                 /\ r.inner = inner

\* The adapter is what remove("a") leaves of the one holding "B" and "A":
\* "B" alone, and a second remove("a") finds nothing.
C5_Witness ==
    /\ phase = "live"
    /\ inner = AdapterRemove(AdapterInsert(AdapterInsert(<<>>, <<66>>, 1).inner,
                                           <<65>>, 1).inner, <<97>>).inner
    /\ StoredKeys = <<<<66>>>>
    /\ RemoveNotFound(AdapterRemove(inner, <<97>>).ret)

\* == of the adapter's type.
AdapterEq(a, b) ==
    IF adapter = "UniCaseIndexMap" THEN IndexMapEq(a, b)
    ELSE IF adapter = "UniCaseIndexSet" THEN IndexSetEq(a, b)
    ELSE BTreeSetEq(a, b)

\* Same cardinality, and every entry of a has an entry of b with the same
\* folded key (and, on the map, an equal value).
SameContent(a, b) ==
    /\ Len(a) = Len(b)
    /\ \A i \in 1..Len(a) : \E j \in 1..Len(b) :
          /\ Fold(KeysOf(a)[i]) = Fold(KeysOf(b)[j])
          /\ IsMapKind => a[i].value = b[j].value

RECURSIVE Reverse(_)
Reverse(c) == IF c = <<>> THEN <<>> ELSE Reverse(Tail(c)) \o <<Head(c)>>

\* Another text of the same folded form, when Texts has one.
OtherCase(k) ==
    IF \E t \in Texts : t # k /\ Fold(t) = Fold(k)
    THEN CHOOSE t \in Texts : t # k /\ Fold(t) = Fold(k)
    ELSE k

\* The adapter with every stored key in its other casing.
RECURSIVE Recase(_)
Recase(c) ==
    IF c = <<>> THEN <<>>
    ELSE <<IF IsMapKind
           THEN [key |-> OtherCase(Head(c).key), value |-> Head(c).value]
           ELSE OtherCase(Head(c))>> \o Recase(Tail(c))

\* C6: == between two adapters of one type holds iff they have the same
\* cardinality and every entry of one is found in the other by folded key
\* (on the map: with an equal value); the result is the same with either
\* operand's entries inserted in the reverse order (insertion-ordered
\* adapters) and with either operand's keys in another casing.
C6_EqByContent ==
    /\ AdapterEq(inner, other) <=> SameContent(inner, other)
    /\ AdapterEq(other, inner) <=> SameContent(inner, other)
    /\ adapter # "UniCaseBTreeSet" =>
          /\ AdapterEq(Reverse(inner), other) <=> AdapterEq(inner, other)
          /\ AdapterEq(inner, Reverse(other)) <=> AdapterEq(inner, other)
    /\ AdapterEq(Recase(inner), other) <=> AdapterEq(inner, other)
    /\ AdapterEq(inner, Recase(other)) <=> AdapterEq(inner, other)

\* {"A": 1, "B": 2} against {"B": 2, "a": 1}: equal.
C6_Witness ==
    /\ IsMapKind
    /\ inner = <<[key |-> <<65>>, value |-> 1], [key |-> <<66>>, value |-> 2]>>
    /\ other = <<[key |-> <<66>>, value |-> 2], [key |-> <<97>>, value |-> 1]>>
    /\ IndexMapEq(inner, other)

\* The value of the last pair whose key has the folded form of t.
LastValue(pairs, t) ==
    LET S == {i \in 1..Len(pairs) : Fold(pairs[i][1]) = Fold(t)}
    IN  pairs[CHOOSE i \in S : \A j \in S : j <= i][2]

PairKeys(pairs) == [i \in 1..Len(pairs) |-> pairs[i][1]]

\* r is m extended with pairs: one entry per folded form of m and pairs,
\* each key of pairs with the value of its last occurrence, every other key
\* with the value it had.
Extended(m, pairs, r) ==
    LET mk == MapKeys(m)
        rk == MapKeys(r)
        pk == PairKeys(pairs)
    IN  /\ Len(r) = Cardinality(FoldsOf(mk) \cup FoldsOf(pk))
        /\ \A t \in Texts :
              IF HasFold(pk, t)
              THEN /\ HasFold(rk, t)
                   /\ r[FoldPos(rk, t)].value = LastValue(pairs, t)
              ELSE IF HasFold(mk, t)
              THEN /\ HasFold(rk, t)
                   /\ r[FoldPos(rk, t)].value = m[FoldPos(mk, t)].value
              ELSE ~HasFold(rk, t)

\* C7: extending a UniCaseIndexMap with, or building one from, a sequence of
\* pairs with keys that differ only in casing yields one entry per folded
\* key (those already in the map included), each key of the sequence with
\* the value of its last occurrence.
C7_BulkLastWins ==
    IsMapKind =>
        \A pairs \in SeqsUpTo(ExtTexts \X Values) :
            /\ Extended(inner, pairs, IndexMapExtend(inner, pairs))
            /\ phase = "new" => Extended(<<>>, pairs, IndexMapFromIter(pairs))

\* The map built from <<("A", 1), ("a", 2)>>: one entry, key "A", value 2.
C7_Witness ==
    /\ IsMapKind
    /\ phase = "live"
    /\ inner = IndexMapFromIter(<<<<<<65>>, 1>>, <<<<97>>, 2>>>>)
    /\ inner = <<[key |-> <<65>>, value |-> 2]>>

\* C8: on UniCaseIndexMap, map[K] is the value get(K) returns when a key of
\* K's folded form is stored, and panics when none is, where get(K) returns
\* None; both take &self, so the map a panicked program holds is one that
\* lacks some key.
C8_IndexPanicsWhenMissing ==
    IsMapKind =>
        /\ \A K \in Texts :
              IF HasFold(StoredKeys, K)
              THEN /\ ~IndexMapIndex(inner, K).panic
                   /\ IndexMapGet(inner, K) = Some(IndexMapIndex(inner, K).value)
                   /\ IndexMapIndex(inner, K).value = inner[FoldPos(StoredKeys, K)].value
              ELSE /\ IndexMapIndex(inner, K).panic
                   /\ IndexMapGet(inner, K) = None
        /\ phase = "panicked" => \E K \in Texts : ~HasFold(StoredKeys, K)

\* map["Å"] panicked on the map holding "A" and "B".
C8_Witness ==
    /\ IsMapKind
    /\ phase = "panicked"
    /\ StoredKeys = <<<<65>>, <<66>>>>
    /\ IndexMapIndex(inner, <<197>>).panic
    /\ ~IndexMapIndex(inner, <<97>>).panic

\* C9: on the sets, insert(K) returns true exactly when no stored key has
\* K's folded form, and then adds K with its text; otherwise it returns
\* false and the set (stored texts, cardinality, order) is as it was.
C9_SetInsertReportsNew ==
    ~IsMapKind =>
        \A K \in Texts :
            LET r == AdapterInsert(inner, K, 1)
            IN  IF HasFold(inner, K)
                THEN r.ret = FALSE /\ r.inner = inner
                ELSE /\ r.ret = TRUE
                     /\ Len(r.inner) = Len(inner) + 1
                     /\ \E i \in 1..Len(r.inner) : r.inner[i] = K
                     /\ \A i \in 1..Len(inner) : \E j \in 1..Len(r.inner) :
                           r.inner[j] = inner[i]
                     /\ adapter = "UniCaseIndexSet" => r.inner = Append(inner, K)

\* The set holds "a" and "B"; insert("A") returns false, insert("Å") true.
C9_Witness ==
    /\ ~IsMapKind
    /\ phase = "live"
    /\ inner = AdapterInsert(AdapterInsert(<<>>, <<97>>, 1).inner, <<66>>, 1).inner
    /\ AdapterInsert(inner, <<65>>, 1).ret = FALSE
    /\ AdapterInsert(inner, <<197>>, 1).ret = TRUE

\* C10: in UniCaseBTreeSet iter() yields the stored keys in strictly
\* ascending order of their folded forms, whatever was inserted when and in
\* whichever casing.
C10_BTreeOrder ==
    adapter = "UniCaseBTreeSet" =>
        \A i \in 1..Len(inner), j \in 1..Len(inner) :
            i < j => FoldedLess(inner[i], inner[j])

\* "B" was inserted before "a" and "": iteration gives "", "a", "B".
C10_Witness ==
    /\ adapter = "UniCaseBTreeSet"
    /\ inner = BTreeSetInsert(BTreeSetInsert(BTreeSetInsert(<<>>, <<66>>).inner,
                                             <<97>>).inner, <<>>).inner
    /\ inner = <<<<>>, <<97>>, <<66>>>>

----------------------------------------------------------------------------
\* What retain(f) leaves behind, whatever the adapter; the sets' predicate
\* sees the key alone.
AdapterRetain(c, f) ==
    IF adapter = "UniCaseIndexMap" THEN IndexMapRetain(c, f)
    ELSE IF adapter = "UniCaseIndexSet" THEN IndexSetRetain(c, f.keys)
    ELSE BTreeSetRetain(c, f.keys)

\* Whether the predicate returns true for the i-th entry of c.
PredKeeps(c, f, i) ==
    IF IsMapKind
    THEN c[i].key \in f.keys /\ c[i].value \in f.values
    ELSE c[i] \in f.keys

\* r holds exactly the entries of c the predicate returns true for, with
\* their key texts, in the relative order they had in c (insertion-ordered
\* adapters); written says whether a value the predicate wrote is expected
\* in r.
Retained(c, r, f, written) ==
    LET ck == KeysOf(c)
        rk == KeysOf(r)
    IN  /\ Len(r) = Cardinality({i \in 1..Len(c) : PredKeeps(c, f, i)})
        /\ \A i \in 1..Len(c) :
              IF PredKeeps(c, f, i)
              THEN /\ HasFold(rk, ck[i])
                   /\ rk[FoldPos(rk, ck[i])] = ck[i]
                   /\ IsMapKind =>
                         r[FoldPos(rk, ck[i])].value
                            = (IF written THEN RetainWritten(f, c[i].value)
                               ELSE c[i].value)
              ELSE ~HasFold(rk, ck[i])
        /\ adapter # "UniCaseBTreeSet" =>
              \A i \in 1..Len(c), j \in 1..Len(c) :
                  (i < j /\ PredKeeps(c, f, i) /\ PredKeeps(c, f, j))
                      => FoldPos(rk, ck[i]) < FoldPos(rk, ck[j])

\* C11 as stated: in every adapter retain(p) removes exactly the entries p
\* returns false for and keeps every other entry with its key text and its
\* value unchanged, in relative insertion order.  It fails on the map for a
\* predicate that writes to the value it is handed by &mut.
C11_RetainLeavesValues ==
    \A f \in RetainPreds : Retained(inner, AdapterRetain(inner, f), f, FALSE)

\* C11, amended: in every adapter retain(p) removes exactly the entries p
\* returns false for and keeps every other entry with its key text
\* unchanged, in relative insertion order on the insertion-ordered adapters;
\* on the map a kept entry has the value p left in it, which is its value
\* unchanged whenever p does not write to it.
C11_RetainKeepsExactly ==
    \A f \in RetainPreds :
        /\ Retained(inner, AdapterRetain(inner, f), f, TRUE)
        /\ f.write = None => \A v \in Values : RetainWritten(f, v) = v

\* The map is what retain(|_, v| { keep = *v == 1; *v = 2; keep }) leaves of
\* {"A": 1, "B": 2, "Å": 1}: "A" and "Å" in that order, both with value 2.
C11_Witness ==
    /\ IsMapKind
    /\ phase = "live"
    /\ inner = IndexMapRetain(<<[key |-> <<65>>, value |-> 1],
                                [key |-> <<66>>, value |-> 2],
                                [key |-> <<197>>, value |-> 1]>>,
                              [keys |-> Texts, values |-> {1}, write |-> Some(2)])
    /\ inner = <<[key |-> <<65>>, value |-> 2], [key |-> <<197>>, value |-> 2]>>

----------------------------------------------------------------------------
\* The adapter built from the empty one by inserting the keys in order (the
\* map with value 1 for each).
RECURSIVE Built(_)
Built(keys) ==
    IF keys = <<>> THEN <<>>
    ELSE AdapterInsert(Built(SubSeq(keys, 1, Len(keys) - 1)),
                       keys[Len(keys)], 1).inner

\* C12: in UniCaseIndexMap and UniCaseIndexSet, remove of a present key
\* followed by insert of a text of the same folded form puts that text last
\* in iteration order, next to the entries that were left; inserting "A",
\* "B", "Å", removing "B" and inserting "B" again gives "A", "Å", "B".
C12_ReinsertGoesLast ==
    adapter # "UniCaseBTreeSet" =>
        /\ \A K \in Texts, K2 \in Texts, v \in Values :
              (HasFold(StoredKeys, K) /\ Fold(K2) = Fold(K)) =>
                  LET removed == AdapterRemove(inner, K).inner
                      again == AdapterInsert(removed, K2, v).inner
                  IN  /\ Len(again) = Len(inner)
                      /\ KeysOf(again)[Len(again)] = K2
                      /\ SubSeq(again, 1, Len(again) - 1) = removed
                      /\ IsMapKind => again[Len(again)].value = v
        /\ KeysOf(AdapterInsert(
                     AdapterRemove(Built(<<<<65>>, <<66>>, <<197>>>>), <<66>>).inner,
                     <<66>>, 1).inner)
              = <<<<65>>, <<197>>, <<66>>>>

\* "A", "B", "Å" were inserted, "B" removed and inserted again: iteration
\* gives "A", "Å", "B".
C12_Witness ==
    /\ adapter # "UniCaseBTreeSet"
    /\ phase = "live"
    /\ inner = AdapterInsert(
                   AdapterRemove(Built(<<<<65>>, <<66>>, <<197>>>>), <<66>>).inner,
                   <<66>>, 1).inner
    /\ StoredKeys = <<<<65>>, <<197>>, <<66>>>>

----------------------------------------------------------------------------
\* What contains(k) / contains_key(k) returns, whatever the adapter.
AdapterContains(c, k) ==
    IF adapter = "UniCaseIndexMap" THEN IndexMapContainsKey(c, k)
    ELSE IF adapter = "UniCaseIndexSet" THEN IndexSetContains(c, k)
    ELSE BTreeSetContains(c, k)

\* What get(k) returns, whatever the adapter.
AdapterGet(c, k) ==
    IF adapter = "UniCaseIndexMap" THEN IndexMapGet(c, k)
    ELSE IF adapter = "UniCaseIndexSet" THEN IndexSetGet(c, k)
    ELSE BTreeSetGet(c, k)

----------------------------------------------------------------------------
\* The texts handed to a call: those the adapters may hold and "1", a text
\* with no case variant.
EdgeTexts == Texts \cup {<<49>>}

\* The results insert and remove may hand back.
InsertResults == IF IsMapKind THEN {None} \cup {Some(v) : v \in Values} ELSE BOOLEAN

\* The results get may hand back.
GetResults ==
    IF IsMapKind THEN {None} \cup {Some(v) : v \in Values}
    ELSE {None} \cup {Some(t) : t \in EdgeTexts}

\* insert(K), the lookups and remove(K) on c, where no key of c has K's
\* folded form: K is stored, found, and removed again.
InsertedLookedUpRemoved(c, K, v) ==
    LET r == AdapterInsert(c, K, v)
    IN  /\ r.ret = (IF IsMapKind THEN None ELSE TRUE)
        /\ Len(r.inner) = Len(c) + 1
        /\ AdapterContains(r.inner, K)
        /\ AdapterGetKey(r.inner, K) = Some(K)
        /\ IsMapKind => AdapterGet(r.inner, K) = Some(v)
        /\ AdapterRemove(r.inner, K).ret = (IF IsMapKind THEN Some(v) ELSE TRUE)
        /\ AdapterRemove(r.inner, K).inner = c

\* C14: in every reachable state and for every text, the empty text and a
\* text with no case variant included, insert, remove, contains, get and
\* retain hand back a result of their type and an adapter (none of them
\* panics), and a text not stored, the empty one included, can be inserted,
\* looked up and removed.
C14_Total ==
    phase # "panicked" =>
        /\ \A K \in EdgeTexts, v \in Values :
              /\ AdapterInsert(inner, K, v).ret \in InsertResults
              /\ Len(AdapterInsert(inner, K, v).inner) \in {Len(inner), Len(inner) + 1}
              /\ AdapterRemove(inner, K).ret \in InsertResults
              /\ Len(AdapterRemove(inner, K).inner) \in {Len(inner), Len(inner) - 1}
              /\ AdapterContains(inner, K) \in BOOLEAN
              /\ AdapterContains(inner, K) <=> HasFold(StoredKeys, K)
              /\ AdapterGet(inner, K) \in GetResults
              /\ (AdapterGet(inner, K) # None) <=> HasFold(StoredKeys, K)
              /\ ~HasFold(StoredKeys, K) => InsertedLookedUpRemoved(inner, K, v)
        /\ \A f \in RetainPreds : Len(AdapterRetain(inner, f)) \in 0..Len(inner)

\* The adapter holds "A" and the empty text: the empty text is found, and
\* remove("") leaves "A".
C14_Witness ==
    /\ phase = "live"
    /\ inner = Built(<<<<65>>, <<>>>>)
    /\ AdapterContains(inner, <<>>)
    /\ AdapterGetKey(inner, <<>>) = Some(<<>>)
    /\ KeysOf(AdapterRemove(inner, <<>>).inner) = <<<<65>>>>

----------------------------------------------------------------------------
\* Across the step the keys, their texts and their order are the same and
\* no entry whose key differs from k has another value.
OnlyValueOf(k) ==
    /\ MapKeys(inner') = MapKeys(inner)
    /\ \A i \in 1..Len(inner) :
          ~UniEq(inner[i].key, k) => inner'[i] = inner[i]

\* A step of a lookup leaves the adapter as it is; a step that updates the
\* value of a stored key k (insert of a stored key, a write through
\* get_mut) changes nothing but the value of k; a step of iter_mut or
\* values_mut changes nothing but values.
FrameKeptStep ==
    /\ Frame_lookup => inner' = inner
    /\ \A k \in Texts, v \in Values :
          ((HasFold(StoredKeys, k) /\ UniCaseIndexMap_insert(k, v))
             \/ UniCaseIndexMap_get_mut(k, v)) => OnlyValueOf(k)
    /\ (\E w \in ValueWrites :
            UniCaseIndexMap_iter_mut(w) \/ UniCaseIndexMap_values_mut(w))
          => MapKeys(inner') = MapKeys(inner)

\* C15: in UniCaseIndexMap and UniCaseIndexSet a lookup (get, get_key_value,
\* contains / contains_key, iter, keys, values, len, is_empty) changes
\* neither entries, key texts, values nor order, and an update of the value
\* of a stored key (insert of a stored key, get_mut, iter_mut, values_mut)
\* changes that value alone: key texts, positions and the other entries stay.
C15_FrameKept == [][FrameKeptStep]_vars

\* The map is {"A": 2, "B": 1} after 2 was written through get_mut("a") to
\* {"A": 1, "B": 1}; get("b") is still Some(1).
C15_Witness ==
    /\ IsMapKind
    /\ phase = "live"
    /\ inner = IndexMapGetMutWrite(<<[key |-> <<65>>, value |-> 1],
                                     [key |-> <<66>>, value |-> 1]>>, <<97>>, 2)
    /\ inner = <<[key |-> <<65>>, value |-> 2], [key |-> <<66>>, value |-> 1]>>
    /\ IndexMapGet(inner, <<66>>) = Some(1)

----------------------------------------------------------------------------
\* C16: on UniCaseIndexMap, entry(K) is Occupied exactly when a stored key
\* has K's folded form and Vacant otherwise, and the handle's key equals K;
\* an insert through a Vacant handle appends the one entry (K, v) and leaves
\* the others as they were; a write through an Occupied handle changes the
\* value of that entry and nothing else; or_insert does the first on a
\* Vacant handle and leaves the map alone on an Occupied one.
C16_EntryHandle ==
    IsMapKind =>
        \A K \in Texts, v \in Values :
            /\ \A hk \in IndexMapEntryKeys(inner, K) : Fold(hk) = Fold(K)
            /\ IF HasFold(StoredKeys, K)
               THEN LET i == FoldPos(StoredKeys, K)
                        r == IndexMapOccupiedInsert(inner, K, v)
                    IN  /\ IndexMapEntry(inner, K) = "Occupied"
                        /\ r.ret = inner[i].value
                        /\ MapKeys(r.inner) = MapKeys(inner)
                        /\ r.inner[i].value = v
                        /\ \A j \in 1..Len(inner) : j # i => r.inner[j] = inner[j]
                        /\ IndexMapEntryOrInsert(inner, K, v).inner = inner
                        /\ IndexMapEntryOrInsert(inner, K, v).ret = inner[i].value
               ELSE LET r == IndexMapVacantInsert(inner, K, v)
                    IN  /\ IndexMapEntry(inner, K) = "Vacant"
                        /\ Len(r) = Len(inner) + 1
                        /\ r[Len(r)] = [key |-> K, value |-> v]
                        /\ SubSeq(r, 1, Len(inner)) = inner
                        /\ IndexMapEntryOrInsert(inner, K, v).inner = r
                        /\ IndexMapEntryOrInsert(inner, K, v).ret = v

\* The map was filled through entry("A").or_insert(1) and
\* entry("B").or_insert(2): entry("a") is Occupied, entry("Å") is Vacant.
C16_Witness ==
    /\ IsMapKind
    /\ phase = "live"
    /\ inner = IndexMapEntryOrInsert(IndexMapEntryOrInsert(<<>>, <<65>>, 1).inner,
                                     <<66>>, 2).inner
    /\ IndexMapEntry(inner, <<97>>) = "Occupied"
    /\ IndexMapEntry(inner, <<197>>) = "Vacant"

----------------------------------------------------------------------------
\* What clear() leaves behind, whatever the adapter.
AdapterClear(c) ==
    IF adapter = "UniCaseIndexMap" THEN IndexMapClear(c)
    ELSE IF adapter = "UniCaseIndexSet" THEN IndexSetClear(c)
    ELSE BTreeSetClear(c)

\* What len() returns, whatever the adapter.
AdapterLen(c) ==
    IF adapter = "UniCaseIndexMap" THEN IndexMapLen(c)
    ELSE IF adapter = "UniCaseIndexSet" THEN IndexSetLen(c)
    ELSE BTreeSetLen(c)

\* What is_empty() returns, whatever the adapter.
AdapterIsEmpty(c) ==
    IF adapter = "UniCaseIndexMap" THEN IndexMapIsEmpty(c)
    ELSE IF adapter = "UniCaseIndexSet" THEN IndexSetIsEmpty(c)
    ELSE BTreeSetIsEmpty(c)

\* C17: in every adapter and every reachable state is_empty() holds exactly
\* when len() is 0; after clear() len() is 0, is_empty() holds, every lookup
\* returns absent, and insert of a key that was stored before the clear
\* reports it as new (true on the sets, None on the map).
C17_ClearEmpties ==
    /\ AdapterIsEmpty(inner) <=> (AdapterLen(inner) = 0)
    /\ AdapterLen(inner) = Cardinality(FoldsOf(StoredKeys))
    /\ LET c == AdapterClear(inner)
       IN  /\ AdapterLen(c) = 0
           /\ AdapterIsEmpty(c)
           /\ \A K \in Texts :
                 /\ AdapterGet(c, K) = None
                 /\ AdapterGetKey(c, K) = None
                 /\ ~AdapterContains(c, K)
           /\ \A K \in Texts, v \in Values :
                 HasFold(StoredKeys, K) =>
                    /\ AdapterInsert(c, K, v).ret = (IF IsMapKind THEN None ELSE TRUE)
                    /\ AdapterLen(AdapterInsert(c, K, v).inner) = 1
                    /\ AdapterGetKey(AdapterInsert(c, K, v).inner, K) = Some(K)

\* The adapter held "A" and "B" and was cleared: it is live and empty, and
\* insert("a") reports a new key.
C17_Witness ==
    /\ phase = "live"
    /\ inner = AdapterClear(Built(<<<<65>>, <<66>>>>))
    /\ AdapterIsEmpty(inner)
    /\ AdapterInsert(inner, <<97>>, 1).ret = (IF IsMapKind THEN None ELSE TRUE)

----------------------------------------------------------------------------
\* Adapters built by at most two inserts of "A", "a" or "B" into an empty
\* one: third operands of ==, for each adapter type.
ThirdMaps ==
    {<<>>}
      \cup {IndexMapInsert(<<>>, k, v).inner : k \in ExtTexts, v \in Values}
      \cup {IndexMapInsert(IndexMapInsert(<<>>, k[1], v[1]).inner, k[2], v[2]).inner :
               k \in ExtTexts \X ExtTexts, v \in Values \X Values}

ThirdIndexSets ==
    {<<>>}
      \cup {IndexSetInsert(<<>>, k).inner : k \in ExtTexts}
      \cup {IndexSetInsert(IndexSetInsert(<<>>, k[1]).inner, k[2]).inner :
               k \in ExtTexts \X ExtTexts}

ThirdBTreeSets ==
    {<<>>}
      \cup {BTreeSetInsert(<<>>, k).inner : k \in ExtTexts}
      \cup {BTreeSetInsert(BTreeSetInsert(<<>>, k[1]).inner, k[2]).inner :
               k \in ExtTexts \X ExtTexts}

Thirds ==
    IF adapter = "UniCaseIndexMap" THEN ThirdMaps
    ELSE IF adapter = "UniCaseIndexSet" THEN ThirdIndexSets
    ELSE ThirdBTreeSets

\* C18: == of each adapter type is an equivalence relation on the adapters
\* the program can build: a == a; a == b implies b == a; a == b and b == c
\* imply a == c.
C18_EqEquivalence ==
    LET ab == AdapterEq(inner, other)
        ba == AdapterEq(other, inner)
    IN  /\ AdapterEq(inner, inner)
        /\ AdapterEq(other, other)
        /\ ab <=> ba
        /\ \A c \in Thirds :
              LET ac == AdapterEq(inner, c)
                  bc == AdapterEq(other, c)
              IN  /\ ac <=> AdapterEq(c, inner)
                  /\ bc <=> AdapterEq(c, other)
                  /\ (ab /\ bc) => ac
                  /\ (ac /\ bc) => ab
                  /\ (ab /\ ac) => bc

\* The insertion-ordered sets {"a", "B"} and {"B", "A"} are equal in both
\* directions, and both equal the third set {"A", "B"}.
C18_Witness ==
    /\ adapter = "UniCaseIndexSet"
    /\ inner = <<<<97>>, <<66>>>>
    /\ other = <<<<66>>, <<65>>>>
    /\ IndexSetEq(inner, other) /\ IndexSetEq(other, inner)
    /\ <<<<65>>, <<66>>>> \in Thirds
    /\ IndexSetEq(other, <<<<65>>, <<66>>>>) /\ IndexSetEq(inner, <<<<65>>, <<66>>>>)

====
